---- MODULE Spec2Model ----
(***************************************************************************)
(* A model of the InterMol helper scripts:                                 *)
(*   packmoltools/resolvate.py  - PDB and AMBER .crd readers and writers   *)
(*                                and the resolvate script body            *)
(*   testing/gromacs_energies.py - the grompp / mdrun / g_energy pipeline  *)
(*                                                                         *)
(* Text is a sequence of one-character strings, a file is its text, and    *)
(* the % formats and int()/float() are computed character by character.    *)
(* A Python float is the integer number of 1e-7 units it holds (FScale),   *)
(* so '%12.7f' is exact and '%8.3f', '%6.2f' round.                        *)
(***************************************************************************)
EXTENDS Integers, Sequences, FiniteSets, TLC

VARIABLES
    \* ---- the .crd codec harness (SpecCrd)
    crdFile,        \* text of the .crd file, or NoFile
    coordinates,    \* the caller's coordinate list (a mutable Python list)
    box_dimensions, \* the caller's box_dimensions argument (list or None)
    box_angles,     \* the caller's box_angles argument (list or None)
    crdArgs,        \* the arguments as they were when writeAmberCrd was last entered
    crdPrev,        \* the .crd file as it was when writeAmberCrd was last entered
    crdOp,          \* the calls made so far: sequence of "write" / "read"
    crdErr,         \* exception raised by the last call, or NoError
    crdRet,         \* value returned by the last readAmberCrd, or NoValue
    \* ---- the PDB codec harness (SpecPdb)
    pdbFile,        \* text of the PDB file, or NoFile
    atoms,          \* the caller's list of atom dictionaries
    pdbArgs,        \* the atoms as they were when writeAtomsToPDB was last entered
    pdbOp,          \* the calls made so far
    pdbErr,         \* exception raised by the last call, or NoError
    pdbRet,         \* value returned by the last read call, or NoValue
    \* ---- the scripts (Spec)
    pc,             \* position in the script body
    script,         \* which script runs: "resolvate" or "gromacs_energies"
    inputs,         \* the files and external-tool behaviour of this run
    tmpdir,         \* the temporary directory: NoDir, or Dir(the file names in it)
    made,           \* TRUE once mkdtemp has created the temporary directory
    env,            \* the script's variables
    log,            \* the steps executed so far, in order
    error           \* the exception that ended the script, or NoError

crdVars == <<crdFile, coordinates, box_dimensions, box_angles, crdArgs, crdPrev,
             crdOp, crdErr, crdRet>>
pdbVars == <<pdbFile, atoms, pdbArgs, pdbOp, pdbErr, pdbRet>>
runVars == <<pc, script, inputs, tmpdir, made, env, log, error>>
vars == <<crdVars, pdbVars, runVars>>

\* a path with no file behind it (no text is this sequence: a text is made of
\* single characters)
NoFile == <<"NoFile">>
\* a directory that does not exist, and one that holds the files named
NoDir == [exists |-> FALSE, files |-> {}]
Dir(names) == [exists |-> TRUE, files |-> names]
NoError == "NoError"
NoValue == "NoValue"
\* a Python value that is a list or None
None == [some |-> FALSE, v |-> <<>>]
List(l) == [some |-> TRUE, v |-> l]

\* -------------------------------------------------------------------------
\* Bounds of the model
\* -------------------------------------------------------------------------
MaxAtoms == 2
MaxCalls == 2
MaxRecords == 3

\* -------------------------------------------------------------------------
\* Text and number primitives (Python str, int(), float(), % formats)
\* -------------------------------------------------------------------------
FScale == 10 * 10 * 10 * 10 * 10 * 10 * 10
LF == "\n"
SP == " "
Digits == <<"0", "1", "2", "3", "4", "5", "6", "7", "8", "9">>

Min(a, b) == IF a < b THEN a ELSE b
Abs(n) == IF n < 0 THEN -n ELSE n

RECURSIVE Pow10(_)
Pow10(k) == IF k = 0 THEN 1 ELSE 10 * Pow10(k - 1)

IsDigit(c) == \E d \in 1..10 : Digits[d] = c
DigitVal(c) == (CHOOSE d \in 1..10 : Digits[d] = c) - 1
IsSpace(c) == c \in {SP, LF}

\* s[a:b] for 0 <= a <= b (Python clips the slice to the string)
Slice(s, a, b) == SubSeq(s, a + 1, Min(b, Len(s)))

RECURSIVE Spaces(_)
Spaces(n) == IF n <= 0 THEN <<>> ELSE <<SP>> \o Spaces(n - 1)

RECURSIVE Zeros(_)
Zeros(n) == IF n <= 0 THEN <<>> ELSE <<"0">> \o Zeros(n - 1)

\* right-justify in a field of width w; a longer text is not cut
PadLeft(s, w) == Spaces(w - Len(s)) \o s

RECURSIVE NatText(_)
NatText(n) == IF n < 10 THEN <<Digits[n + 1]>>
              ELSE NatText(n \div 10) \o <<Digits[(n % 10) + 1]>>

\* n as exactly k digits (n < 10^k)
NatTextW(n, k) == Zeros(k - Len(NatText(n))) \o NatText(n)

\* '%<w>d' % n
FmtInt(n, w) == PadLeft((IF n < 0 THEN <<"-">> ELSE <<>>) \o NatText(Abs(n)), w)

\* '%<w>s' % s
FmtStr(s, w) == PadLeft(s, w)

\* the value x (in 1e-7 units) rounded to p decimals, in units of 10^-p;
\* an exact tie goes to the even neighbour, as C's printf does
RoundTo(x, p) ==
    IF p >= 7 THEN Abs(x) * Pow10(p - 7)
    ELSE LET u == Pow10(7 - p)
             q == Abs(x) \div u
             r == Abs(x) % u
         IN  IF 2 * r > u \/ (2 * r = u /\ q % 2 = 1) THEN q + 1 ELSE q

\* '%<w>.<p>f' % x
FmtFloat(x, w, p) ==
    LET q == RoundTo(x, p)
        u == Pow10(p)
    IN  PadLeft((IF x < 0 THEN <<"-">> ELSE <<>>)
                \o NatText(q \div u) \o <<".">> \o NatTextW(q % u, p), w)

RECURSIVE LStrip(_)
LStrip(s) == IF s # <<>> /\ IsSpace(Head(s)) THEN LStrip(Tail(s)) ELSE s

RECURSIVE RStrip(_)
RStrip(s) == IF s # <<>> /\ IsSpace(s[Len(s)]) THEN RStrip(SubSeq(s, 1, Len(s) - 1)) ELSE s

\* str.strip()
Strip(s) == RStrip(LStrip(s))

RECURSIVE DigitsVal(_)
DigitsVal(s) == IF s = <<>> THEN 0
                ELSE 10 * DigitsVal(SubSeq(s, 1, Len(s) - 1)) + DigitVal(s[Len(s)])

AllDigits(s) == \A i \in 1..Len(s) : IsDigit(s[i])

\* int(s): [ok, val]; not ok is Python's ValueError
ParseInt(s) ==
    LET t == Strip(s)
        signed == t # <<>> /\ Head(t) \in {"-", "+"}
        d == IF signed THEN Tail(t) ELSE t
    IN  IF d = <<>> \/ ~AllDigits(d)
        THEN [ok |-> FALSE, val |-> 0]
        ELSE [ok |-> TRUE,
              val |-> IF signed /\ Head(t) = "-" THEN -DigitsVal(d) ELSE DigitsVal(d)]

\* position of the first "." of s, or 0
DotAt(s) == IF \E i \in 1..Len(s) : s[i] = "."
            THEN CHOOSE i \in 1..Len(s) : s[i] = "." /\ \A j \in 1..(i - 1) : s[j] # "."
            ELSE 0

\* float(s) for plain decimal text: [ok, val]; not ok is Python's ValueError.
\* The texts of this model carry at most 7 decimals and |value| < 214.
ParseFloat(s) ==
    LET t == Strip(s)
        signed == t # <<>> /\ Head(t) \in {"-", "+"}
        d == IF signed THEN Tail(t) ELSE t
        k == DotAt(d)
        ip == IF k = 0 THEN d ELSE SubSeq(d, 1, k - 1)
        fp == IF k = 0 THEN <<>> ELSE SubSeq(d, k + 1, Len(d))
        fp7 == SubSeq(fp \o Zeros(7 - Len(fp)), 1, 7)
    IN  IF ~AllDigits(ip) \/ ~AllDigits(fp) \/ (ip = <<>> /\ fp = <<>>)
        THEN [ok |-> FALSE, val |-> 0]
        ELSE [ok |-> TRUE,
              val |-> (IF signed /\ Head(t) = "-" THEN -1 ELSE 1)
                      * (DigitsVal(ip) * FScale + DigitsVal(fp7))]

\* the one element of a one-element set. {F(v) : v \in {e}} works e out once
\* and hands the value to F, however often F uses it.
The(S) == CHOOSE x \in S : TRUE

\* the members of the set S of integers within lo..hi, in increasing order
RECURSIVE Ascending(_, _, _)
Ascending(S, lo, hi) ==
    IF lo > hi THEN <<>>
    ELSE IF lo = hi THEN (IF lo \in S THEN <<lo>> ELSE <<>>)
    ELSE LET mid == (lo + hi) \div 2
         IN  Ascending(S, lo, mid) \o Ascending(S, mid + 1, hi)

\* the members of S within 1..n, in increasing order
Sorted(S, n) == The({Ascending(T, 1, n) : T \in {S}})

\* the pieces of t that start at from[k] and end at to[k]
Pieces(t, from, to) == [k \in 1..Len(from) |-> SubSeq(t, from[k], to[k])]

SplitText(t) ==
    The({Pieces(t, from, to) :
            from \in {Sorted({i \in 1..Len(t) :
                                ~IsSpace(t[i]) /\ (i = 1 \/ IsSpace(t[i - 1]))}, Len(t))},
            to \in {Sorted({i \in 1..Len(t) :
                                ~IsSpace(t[i]) /\ (i = Len(t) \/ IsSpace(t[i + 1]))}, Len(t))}})

\* str.split(): the maximal runs of non-blank characters
Split(s) == The({SplitText(t) : t \in {s}})

\* the lines of t when its newlines are at the positions ends; text after the
\* last newline is a last line without one
LinesEndingAt(t, ends) ==
    LET full == [k \in 1..Len(ends) |->
                    SubSeq(t, (IF k = 1 THEN 0 ELSE ends[k - 1]) + 1, ends[k])]
        done == IF ends = <<>> THEN 0 ELSE ends[Len(ends)]
    IN  IF done < Len(t) THEN Append(full, SubSeq(t, done + 1, Len(t))) ELSE full

LinesOfText(t) ==
    The({LinesEndingAt(t, ends) : ends \in {Sorted({i \in 1..Len(t) : t[i] = LF}, Len(t))}})

\* file.readlines(): the lines of a text, each with its terminating newline
ReadLines(s) == The({LinesOfText(t) : t \in {s}})

RECURSIVE Concat(_)
Concat(ss) == IF ss = <<>> THEN <<>> ELSE Head(ss) \o Concat(Tail(ss))

\* a Python value used as a condition: None and the empty list are false
Truthy(o) == o.some /\ o.v # <<>>

\* -------------------------------------------------------------------------
\* AMBER .crd codec (resolvate.py: readAmberCrd, writeAmberCrd)
\* -------------------------------------------------------------------------

\* the loop that writes the values: '%12.7f' each, a newline after every 6th
RECURSIVE CrdValueText(_, _)
CrdValueText(vals, coordinates_this_line) ==
    IF vals = <<>> THEN <<>>
    ELSE FmtFloat(Head(vals), 12, 7)
         \o (IF coordinates_this_line + 1 = 6
             THEN <<LF>> \o CrdValueText(Tail(vals), 0)
             ELSE CrdValueText(Tail(vals), coordinates_this_line + 1))

\* writeAmberCrd(crd_filename, coordinates, title, box_dimensions, box_angles)
\* on a file whose text is `file`: the exception raised (or NoError), the
\* file afterwards, and the caller's coordinate list afterwards.
\* ParameterError is a name the module never defines or imports, so the
\* raise statement itself fails with NameError.
writeAmberCrd(file, coords, title, bd, ba) ==
    IF Len(coords) % 3 # 0
    THEN [err |-> "NameError", file |-> file, coordinates |-> coords]
    ELSE LET natoms == Len(coords) \div 3
             \* coordinates_to_write is the caller's list itself; += extends it
             w1 == IF Truthy(bd) THEN coords \o bd.v ELSE coords
             coordinates_to_write == IF Truthy(ba) THEN w1 \o ba.v ELSE w1
         IN  [err |-> NoError,
              file |-> title \o <<LF>> \o FmtInt(natoms, 6) \o <<LF>>
                       \o CrdValueText(coordinates_to_write, 0),
              coordinates |-> coordinates_to_write]

ParseAll(tokens) ==
    IF \A i \in 1..Len(tokens) : ParseFloat(tokens[i]).ok
    THEN [ok |-> TRUE, vals |-> [i \in 1..Len(tokens) |-> ParseFloat(tokens[i]).val]]
    ELSE [ok |-> FALSE, vals |-> <<>>]

\* float() of every token: [ok, vals]; not ok is the ValueError of float()
ParseFloats(tokens) == The({ParseAll(ts) : ts \in {tokens}})

\* lines 219-227 of readAmberCrd: box_dimensions and box_angles are local
\* names bound only inside the two if statements, and the return reads both
CrdResult(title, natoms, all) ==
    IF ~(Len(all) >= 3 * natoms + 3) \/ ~(Len(all) = 3 * natoms + 6)
    THEN [err |-> "UnboundLocalError", ret |-> NoValue]
    ELSE [err |-> NoError,
          ret |-> [title |-> title, natoms |-> natoms,
                   coordinates |-> Slice(all, 0, 3 * natoms),
                   box_dimensions |-> List(Slice(all, 3 * natoms, 3 * natoms + 3)),
                   box_angles |-> List(Slice(all, 3 * natoms + 3, 3 * natoms + 6))]]

\* lines 209-217 of readAmberCrd: the title line, the tokens of the count
\* line and the float() of every later token
CrdParsed(title_line, head, fl) ==
    IF head = <<>> THEN [err |-> "IndexError", ret |-> NoValue]
    ELSE IF ~ParseInt(head[1]).ok \/ ~fl.ok THEN [err |-> "ValueError", ret |-> NoValue]
    ELSE CrdResult(RStrip(title_line), ParseInt(head[1]).val, fl.vals)

CrdFromLines(lines) ==
    IF Len(lines) < 2 THEN [err |-> "IndexError", ret |-> NoValue]
    ELSE The({CrdParsed(lines[1], head, fl) :
                head \in {Split(lines[2])},
                fl \in {ParseFloats(Split(Concat(SubSeq(lines, 3, Len(lines)))))}})

\* readAmberCrd(crd_filename) on a file whose text is `file`: the exception
\* raised (or NoError) and the tuple returned
readAmberCrd(file) ==
    IF file = NoFile THEN [err |-> "IOError", ret |-> NoValue]
    ELSE The({CrdFromLines(lines) : lines \in {ReadLines(file)}})

\* -------------------------------------------------------------------------
\* PDB codec (resolvate.py: getPresentSequence, readAtomsFromPDB,
\* writeAtomsToPDB)
\* -------------------------------------------------------------------------
AtomTag == <<"A", "T", "O", "M", " ", " ">>

\* a Python int or None (last_resSeq)
NoInt == [some |-> FALSE, v |-> 0]
SomeInt(n) == [some |-> TRUE, v |-> n]

IsAtomLine(line) == Slice(line, 0, 6) = AtomTag

\* the loop of getPresentSequence over the lines from the i-th on:
\* [ok, sequence]; not ok is the ValueError of int()
RECURSIVE PresentFrom(_, _, _, _, _)
PresentFrom(lines, i, chain, last_resSeq, sequence) ==
    IF i > Len(lines) THEN [ok |-> TRUE, sequence |-> sequence]
    ELSE IF ~IsAtomLine(lines[i]) THEN PresentFrom(lines, i + 1, chain, last_resSeq, sequence)
    ELSE LET line == lines[i]
             serial == ParseInt(Slice(line, 6, 11))
             resName == Slice(line, 17, 20)
             chainID == Slice(line, 21, 22)
             resSeq == ParseInt(Slice(line, 22, 26))
         IN  IF ~serial.ok \/ ~resSeq.ok THEN [ok |-> FALSE, sequence |-> <<>>]
             ELSE IF chain = chainID /\ SomeInt(resSeq.val) # last_resSeq
                  THEN PresentFrom(lines, i + 1, chain, SomeInt(resSeq.val),
                                   Append(sequence, resName))
                  ELSE PresentFrom(lines, i + 1, chain, last_resSeq, sequence)

\* getPresentSequence with last_resSeq following every ATOM line, whatever its chain
RECURSIVE PresentAnyChainFrom(_, _, _, _, _)
PresentAnyChainFrom(lines, i, chain, last_resSeq, sequence) ==
    IF i > Len(lines) THEN [ok |-> TRUE, sequence |-> sequence]
    ELSE IF ~IsAtomLine(lines[i])
         THEN PresentAnyChainFrom(lines, i + 1, chain, last_resSeq, sequence)
    ELSE LET line == lines[i]
             resSeq == ParseInt(Slice(line, 22, 26))
             new == SomeInt(resSeq.val) # last_resSeq
         IN  IF ~ParseInt(Slice(line, 6, 11)).ok \/ ~resSeq.ok
             THEN [ok |-> FALSE, sequence |-> <<>>]
             ELSE PresentAnyChainFrom(lines, i + 1, chain, SomeInt(resSeq.val),
                     IF chain = Slice(line, 21, 22) /\ new
                     THEN Append(sequence, Slice(line, 17, 20)) ELSE sequence)

\* what getPresentSequence returns or raises for the outcome r of its loop
PresentResult(r) ==
    IF r.ok THEN [err |-> NoError, ret |-> r.sequence]
    ELSE [err |-> "ValueError", ret |-> NoValue]

PresentAnyChainIn(lines, chain) ==
    The({PresentResult(r) : r \in {PresentAnyChainFrom(lines, 1, chain, NoInt, <<>>)}})

getPresentSequenceAnyChain(file, chain) ==
    IF file = NoFile THEN [err |-> "IOError", ret |-> NoValue]
    ELSE The({PresentAnyChainIn(lines, chain) : lines \in {ReadLines(file)}})

PresentIn(lines, chain) ==
    The({PresentResult(r) : r \in {PresentFrom(lines, 1, chain, NoInt, <<>>)}})

\* getPresentSequence(pdbfilename, chain) on a file whose text is `file`
getPresentSequence(file, chain) ==
    IF file = NoFile THEN [err |-> "IOError", ret |-> NoValue]
    ELSE The({PresentIn(lines, chain) : lines \in {ReadLines(file)}})

\* the fields readAtomsFromPDB takes from one ATOM line: [ok, atom]
ParseAtomLine(line) ==
    LET serial == ParseInt(Slice(line, 6, 11))
        resSeq == ParseInt(Slice(line, 22, 26))
        x == ParseFloat(Slice(line, 30, 38))
        y == ParseFloat(Slice(line, 38, 46))
        z == ParseFloat(Slice(line, 46, 54))
        occBlank == Strip(Slice(line, 54, 60)) = <<>>
        occ == ParseFloat(Slice(line, 54, 60))
        tfBlank == Strip(Slice(line, 60, 66)) = <<>>
        tf == ParseFloat(Slice(line, 60, 66))
    IN  IF ~serial.ok \/ ~resSeq.ok \/ ~x.ok \/ ~y.ok \/ ~z.ok
           \/ (~occBlank /\ ~occ.ok) \/ (~tfBlank /\ ~tf.ok)
        THEN [ok |-> FALSE, atom |-> <<>>]
        ELSE [ok |-> TRUE,
              atom |-> [serial |-> serial.val,
                        name |-> Slice(line, 12, 16),
                        altLoc |-> Slice(line, 16, 17),
                        resName |-> Slice(line, 17, 20),
                        chainID |-> Slice(line, 21, 22),
                        resSeq |-> resSeq.val,
                        iCode |-> Slice(line, 26, 27),
                        x |-> x.val, y |-> y.val, z |-> z.val,
                        occupancy |-> IF occBlank THEN FScale ELSE occ.val,
                        tempFactor |-> IF tfBlank THEN 0 ELSE tf.val,
                        segID |-> Slice(line, 72, 76),
                        element |-> Slice(line, 76, 78),
                        charge |-> Slice(line, 78, 80)]]

RECURSIVE AtomsFrom(_, _, _)
AtomsFrom(lines, i, acc) ==
    IF i > Len(lines) THEN [ok |-> TRUE, atoms |-> acc]
    ELSE IF ~IsAtomLine(lines[i]) THEN AtomsFrom(lines, i + 1, acc)
    ELSE LET a == ParseAtomLine(lines[i])
         IN  IF a.ok THEN AtomsFrom(lines, i + 1, Append(acc, a.atom))
             ELSE [ok |-> FALSE, atoms |-> <<>>]

AtomsResult(r) ==
    IF r.ok THEN [err |-> NoError, ret |-> r.atoms]
    ELSE [err |-> "ValueError", ret |-> NoValue]

AtomsIn(lines) == The({AtomsResult(r) : r \in {AtomsFrom(lines, 1, <<>>)}})

\* readAtomsFromPDB(pdbfilename) on a file whose text is `file`
readAtomsFromPDB(file) ==
    IF file = NoFile THEN [err |-> "IOError", ret |-> NoValue]
    ELSE The({AtomsIn(lines) : lines \in {ReadLines(file)}})

\* one pass of the renumbering loop, on the i-th atom: the atoms, serial,
\* resSeq and last_resSeq after it
RenumberStep(as, i, serial, resSeq, last_resSeq) ==
    LET changed == SomeInt(as[i].resSeq) # last_resSeq
        resSeq1 == IF changed THEN resSeq + 1 ELSE resSeq
    IN  <<[as EXCEPT ![i].serial = serial, ![i].resSeq = resSeq1],
          serial + 1, resSeq1,
          IF changed THEN SomeInt(as[i].resSeq) ELSE last_resSeq>>

\* the renumbering loop of writeAtomsToPDB from the i-th atom on
RECURSIVE RenumberFrom(_, _, _, _, _)
RenumberFrom(as, i, serial, resSeq, last_resSeq) ==
    IF i > Len(as) THEN as
    ELSE The({RenumberFrom(n[1], i + 1, n[2], n[3], n[4]) :
                n \in {RenumberStep(as, i, serial, resSeq, last_resSeq)}})

\* a pass of the renumbering loop with the residue number compared to the
\* counter of numbers given out, not to the previous atom's original number
RenumberRollingStep(as, i, serial, resSeq) ==
    LET resSeq1 == IF as[i].resSeq # resSeq THEN resSeq + 1 ELSE resSeq
    IN  <<[as EXCEPT ![i].serial = serial, ![i].resSeq = resSeq1], serial + 1, resSeq1>>

RECURSIVE RenumberRollingFrom(_, _, _, _)
RenumberRollingFrom(as, i, serial, resSeq) ==
    IF i > Len(as) THEN as
    ELSE The({RenumberRollingFrom(n[1], i + 1, n[2], n[3]) :
                n \in {RenumberRollingStep(as, i, serial, resSeq)}})

RenumberRolling(as) == RenumberRollingFrom(as, 1, 1, 0)

\* the atom dictionaries after the renumbering pass
Renumber(as) == RenumberFrom(as, 1, 1, 0, NoInt)

\* the line for one atom with two blanks, not three, before the coordinates
AtomLineShort(atom) ==
    AtomTag \o FmtInt(atom.serial, 5) \o <<SP>> \o FmtStr(atom.name, 4) \o atom.altLoc
    \o FmtStr(atom.resName, 3) \o <<SP>> \o atom.chainID \o FmtInt(atom.resSeq, 4)
    \o atom.iCode \o Spaces(2)
    \o FmtFloat(atom.x, 8, 3) \o FmtFloat(atom.y, 8, 3) \o FmtFloat(atom.z, 8, 3)
    \o FmtFloat(atom.occupancy, 6, 2) \o FmtFloat(atom.tempFactor, 6, 2)
    \o FmtStr(atom.element, 2) \o FmtStr(atom.charge, 2) \o <<LF>>

\* the line written for one atom. %c takes a one-character string, which is
\* what every atom of this model carries in altLoc, chainID and iCode.
AtomLine(atom) ==
    AtomTag \o FmtInt(atom.serial, 5) \o <<SP>> \o FmtStr(atom.name, 4) \o atom.altLoc
    \o FmtStr(atom.resName, 3) \o <<SP>> \o atom.chainID \o FmtInt(atom.resSeq, 4)
    \o atom.iCode \o Spaces(3)
    \o FmtFloat(atom.x, 8, 3) \o FmtFloat(atom.y, 8, 3) \o FmtFloat(atom.z, 8, 3)
    \o FmtFloat(atom.occupancy, 6, 2) \o FmtFloat(atom.tempFactor, 6, 2)
    \o FmtStr(atom.element, 2) \o FmtStr(atom.charge, 2) \o <<LF>>

\* writeAtomsToPDB(pdbfilename, atoms, renumber) on a file whose text is
\* `file`: the exception raised (or NoError), the file afterwards and the
\* caller's atom dictionaries afterwards
writeAtomsToPDB(file, as, renumber) ==
    IF renumber /\ as = <<>>
    THEN [err |-> "IndexError", file |-> file, atoms |-> as]
    ELSE The({[err |-> NoError,
               file |-> Concat([i \in 1..Len(out) |-> AtomLine(out[i])]),
               atoms |-> out] : out \in {IF renumber THEN Renumber(as) ELSE as}})

\* -------------------------------------------------------------------------
\* SpecCrd: calls of writeAmberCrd and readAmberCrd on one .crd file
\* -------------------------------------------------------------------------
\* the last call a harness made
LastCall(ops) == IF ops = <<>> THEN "none" ELSE ops[Len(ops)]

CrdTitle == <<"b", "o", "x">>
BoxD == <<30 * FScale, 31 * FScale + 5000000, 32 * FScale + 2500000>>
BoxA == <<90 * FScale, 90 * FScale, 90 * FScale>>

\* the i-th value of coordinate pattern p: 1.0, 2.0, 3.0, ... or
\* -0.1234567, -100.0, -0.3703701, ...
CoordValue(p, i) == IF p = 1 THEN i * FScale
                    ELSE IF i = 2 THEN -100 * FScale ELSE -(i * 1234567)
CoordPatterns == {1, 2}
CoordList(p, len) == [i \in 1..len |-> CoordValue(p, i)]

\* a .crd text with header count n followed by len values
CrdText(n, len) == CrdTitle \o <<LF>> \o FmtInt(n, 6) \o <<LF>>
                   \o CrdValueText(CoordList(1, len), 0)

NoCrdCall == [coordinates |-> <<>>, box_dimensions |-> None, box_angles |-> None]
NoPdbCall == [atoms |-> <<>>, renumber |-> FALSE]

\* an exception that ended a script: its type and the command its message names
Raised(type, command) == [type |-> type, command |-> command]
NotRaised == Raised(NoError, "none")

InitCrd ==
    \* no PDB call and no script in this specification
    /\ pdbFile = NoFile /\ atoms = <<>> /\ pdbArgs = NoPdbCall /\ pdbOp = <<>>
    /\ pdbErr = NoError /\ pdbRet = NoValue
    /\ pc = "idle" /\ script = "none" /\ inputs = <<>> /\ tmpdir = NoDir /\ made = FALSE
    /\ env = <<>> /\ log = <<>> /\ error = NotRaised
    /\ crdOp = <<>> /\ crdErr = NoError /\ crdRet = NoValue
    /\ crdArgs = NoCrdCall /\ crdPrev = NoFile
    /\ \/ \* a caller with arguments of its own, the target absent or present
          /\ crdFile \in {NoFile, CrdText(1, 9)}
          /\ \E p \in CoordPatterns, len \in 0..(3 * MaxAtoms + 1) :
                coordinates = CoordList(p, len)
          /\ box_dimensions \in {None, List(<<>>), List(BoxD)}
          /\ box_angles \in {None, List(BoxA)}
       \/ \* a file from elsewhere: any header count, any number of values
          /\ \E n \in 0..MaxAtoms, len \in 0..(3 * MaxAtoms + 7) : crdFile = CrdText(n, len)
          /\ coordinates = <<>> /\ box_dimensions = None /\ box_angles = None

CallWriteAmberCrd ==
    /\ Len(crdOp) < MaxCalls
    /\ \E r \in {writeAmberCrd(crdFile, coordinates, CrdTitle, box_dimensions, box_angles)} :
           /\ crdFile' = r.file
           /\ coordinates' = r.coordinates
           /\ crdErr' = r.err
    /\ crdArgs' = [coordinates |-> coordinates, box_dimensions |-> box_dimensions,
                   box_angles |-> box_angles]
    /\ crdPrev' = crdFile
    /\ crdOp' = Append(crdOp, "write")
    /\ crdRet' = NoValue
    /\ UNCHANGED <<box_dimensions, box_angles>>

CallReadAmberCrd ==
    /\ Len(crdOp) < MaxCalls
    /\ \E r \in {readAmberCrd(crdFile)} : crdErr' = r.err /\ crdRet' = r.ret
    /\ crdOp' = Append(crdOp, "read")
    /\ UNCHANGED <<crdFile, coordinates, box_dimensions, box_angles, crdArgs, crdPrev>>

NextCrd ==
    \/ CallWriteAmberCrd /\ UNCHANGED <<pdbVars, runVars>>
    \/ CallReadAmberCrd /\ UNCHANGED <<pdbVars, runVars>>

SpecCrd == InitCrd /\ [][NextCrd]_vars

\* -------------------------------------------------------------------------
\* Claims about the .crd codec
\* -------------------------------------------------------------------------
\* the header count and the numeric sequence of a .crd text, for a text that has them
CrdHeaderOk(file) ==
    /\ file # NoFile
    /\ Len(ReadLines(file)) >= 2
    /\ Split(ReadLines(file)[2]) # <<>>
    /\ ParseInt(Split(ReadLines(file)[2])[1]).ok
    /\ ParseFloats(Split(Concat(SubSeq(ReadLines(file), 3, Len(ReadLines(file)))))).ok
CrdHeaderCount(file) == ParseInt(Split(ReadLines(file)[2])[1]).val
CrdNumbers(file) == ParseFloats(Split(Concat(SubSeq(ReadLines(file), 3, Len(ReadLines(file)))))).vals

\* C3: readAmberCrd on a file with header count N and L >= 3N values returns
\* the first 3N values as positions, values 3N..3N+2 as box dimensions when
\* L >= 3N+3 (absent otherwise) and values 3N+3..3N+5 as box angles when
\* L = 3N+6 (absent otherwise).
C3_ReadInfersBox ==
    (LastCall(crdOp) = "read" /\ CrdHeaderOk(crdFile)
        /\ Len(CrdNumbers(crdFile)) >= 3 * CrdHeaderCount(crdFile))
    => LET N == CrdHeaderCount(crdFile)
           v == CrdNumbers(crdFile)
           L == Len(v)
       IN  /\ crdErr = NoError
           /\ crdRet.natoms = N
           /\ crdRet.coordinates = SubSeq(v, 1, 3 * N)
           /\ crdRet.box_dimensions =
                 (IF L >= 3 * N + 3 THEN List(SubSeq(v, 3 * N + 1, 3 * N + 3)) ELSE None)
           /\ crdRet.box_angles =
                 (IF L = 3 * N + 6 THEN List(SubSeq(v, 3 * N + 4, 3 * N + 6)) ELSE None)

\* the box metadata of a call is one of the three shapes of a coordinate set
CrdBoxShape(a) ==
    \/ a.box_dimensions = None /\ a.box_angles = None
    \/ a.box_dimensions = List(BoxD) /\ a.box_angles = None
    \/ a.box_dimensions = List(BoxD) /\ a.box_angles = List(BoxA)

\* C4: writeAmberCrd followed by readAmberCrd of the written file returns the
\* atom count, the positions and the box dimensions and angles that were
\* written, each absent exactly when it was absent in the input.
C4_CrdRoundTrip ==
    (Len(crdOp) >= 2 /\ SubSeq(crdOp, Len(crdOp) - 1, Len(crdOp)) = <<"write", "read">>
        /\ Len(crdArgs.coordinates) % 3 = 0 /\ CrdBoxShape(crdArgs))
    => /\ crdErr = NoError
       /\ crdRet.natoms = Len(crdArgs.coordinates) \div 3
       /\ crdRet.coordinates = crdArgs.coordinates
       /\ crdRet.box_dimensions = crdArgs.box_dimensions
       /\ crdRet.box_angles = crdArgs.box_angles

\* C5: writeAmberCrd with a coordinate sequence whose length is not a
\* multiple of 3 fails with ParameterError before the file is opened, whatever
\* the box metadata: the target is as it was, absent or with its old text.
C5_WriteRejectsBadLength ==
    (LastCall(crdOp) = "write" /\ Len(crdArgs.coordinates) % 3 # 0)
    => crdErr = "ParameterError" /\ crdFile = crdPrev

\* the values writeAmberCrd is to write for a call: positions, then box
\* dimensions if given, then box angles if given
CrdPayload(a) ==
    a.coordinates
    \o (IF Truthy(a.box_dimensions) THEN a.box_dimensions.v ELSE <<>>)
    \o (IF Truthy(a.box_angles) THEN a.box_angles.v ELSE <<>>)

\* the k-th value line for the values vals: values 6(k-1)+1 .. 6k, each in
\* 12 columns, and the newline that ends the line
CrdLine(vals, k) ==
    Concat([j \in 1..(Min(6 * k, Len(vals)) - 6 * (k - 1)) |->
                FmtFloat(vals[6 * (k - 1) + j], 12, 7)]) \o <<LF>>

\* C9: after the title line and the atom-count line writeAmberCrd writes the
\* positions, box dimensions and box angles in that order, 6 values to a
\* line, the last line holding the 1 to 6 values that remain, and every value
\* line ends with a newline.
C9_WriteWrapsLines ==
    (LastCall(crdOp) = "write" /\ crdErr = NoError)
    => LET vals == CrdPayload(crdArgs)
           nlines == (Len(vals) + 5) \div 6
           lines == ReadLines(crdFile)
       IN  /\ Len(lines) = 2 + nlines
           /\ lines[1] = CrdTitle \o <<LF>>
           /\ lines[2] = FmtInt(Len(crdArgs.coordinates) \div 3, 6) \o <<LF>>
           /\ \A k \in 1..nlines : lines[2 + k] = CrdLine(vals, k)

\* the last two calls were both writeAmberCrd, with the caller's same list
\* and the same box metadata
WroteTwice ==
    Len(crdOp) >= 2 /\ SubSeq(crdOp, Len(crdOp) - 1, Len(crdOp)) = <<"write", "write">>

\* C11: writeAmberCrd leaves the caller's coordinate list, box dimensions
\* and box angles as they were passed, so a second call with the same list
\* and the same box metadata writes the same atom-count line and the same
\* values as the first.
C11_WriteKeepsArguments ==
    /\ LastCall(crdOp) = "write"
       => /\ coordinates = crdArgs.coordinates
          /\ box_dimensions = crdArgs.box_dimensions
          /\ box_angles = crdArgs.box_angles
    /\ WroteTwice => crdFile = crdPrev

\* -------------------------------------------------------------------------
\* SpecPdb: a caller that writes atoms to a new PDB file and reads it back,
\* or reads a PDB file that came from elsewhere
\* -------------------------------------------------------------------------
BlankField == <<SP>>

\* the atom dictionaries the caller may hold. The fourth has an x of four
\* decimals (1.2346), the fifth a two-character name and residue name.
AtomPool ==
    {[serial |-> 1, name |-> <<" ", "N", " ", " ">>, altLoc |-> BlankField,
      resName |-> <<"A", "L", "A">>, chainID |-> <<"A">>, resSeq |-> 1,
      iCode |-> BlankField, x |-> FScale, y |-> -(2 * FScale + 5000000),
      z |-> 3 * FScale + 1250000, occupancy |-> FScale, tempFactor |-> 0,
      segID |-> <<>>, element |-> <<"N">>, charge |-> <<>>],
     [serial |-> 2, name |-> <<" ", "C", "A", " ">>, altLoc |-> <<"B">>,
      resName |-> <<"G", "L", "Y">>, chainID |-> <<"A">>, resSeq |-> 2,
      iCode |-> BlankField, x |-> 11 * FScale + 5000000, y |-> 10000,
      z |-> -2500000, occupancy |-> 5000000, tempFactor |-> 12 * FScale + 3400000,
      segID |-> <<>>, element |-> <<"C">>, charge |-> <<>>],
     [serial |-> 17, name |-> <<" ", "O", " ", " ">>, altLoc |-> BlankField,
      resName |-> <<"H", "O", "H">>, chainID |-> <<"B">>, resSeq |-> 2,
      iCode |-> <<"A">>, x |-> -(100 * FScale), y |-> 0, z |-> 99 * FScale + 9990000,
      occupancy |-> FScale, tempFactor |-> 0,
      segID |-> <<>>, element |-> <<"O">>, charge |-> <<>>],
     [serial |-> 4, name |-> <<" ", "C", "B", " ">>, altLoc |-> BlankField,
      resName |-> <<"G", "L", "Y">>, chainID |-> <<"A">>, resSeq |-> 2,
      iCode |-> BlankField, x |-> FScale + 2346000, y |-> 2 * FScale, z |-> 3 * FScale,
      occupancy |-> FScale, tempFactor |-> 0,
      segID |-> <<>>, element |-> <<"C">>, charge |-> <<>>],
     [serial |-> 5, name |-> <<"N", "A">>, altLoc |-> BlankField,
      resName |-> <<"N", "A">>, chainID |-> <<"B">>, resSeq |-> 3,
      iCode |-> BlankField, x |-> 4 * FScale, y |-> 5 * FScale, z |-> 6 * FScale,
      occupancy |-> FScale, tempFactor |-> 0,
      segID |-> <<>>, element |-> <<"N", "A">>, charge |-> <<"1", "+">>]}

\* all sequences over S of length at most n
RECURSIVE SeqsUpTo(_, _)
SeqsUpTo(S, n) ==
    IF n = 0 THEN {<<>>}
    ELSE LET shorter == SeqsUpTo(S, n - 1)
         IN  shorter \cup {Append(q, e) : q \in shorter, e \in S}

\* an 80-column line of a PDB file from elsewhere: the tag, the fields of an
\* atom in their columns, occupancy and temperature factor given or left blank
ForeignLine(tag, atom, blank) ==
    tag \o SubSeq(AtomLine(atom), 7, 54)
    \o (IF blank THEN Spaces(12)
        ELSE FmtFloat(atom.occupancy, 6, 2) \o FmtFloat(atom.tempFactor, 6, 2))
    \o Spaces(6) \o <<"S", "E", "G", "1">> \o FmtStr(atom.element, 2) \o Spaces(2) \o <<LF>>

PoolAtom(k) == CHOOSE a \in AtomPool : a.serial = k

ForeignLines ==
    {ForeignLine(AtomTag, PoolAtom(1), FALSE),
     ForeignLine(AtomTag, PoolAtom(17), TRUE),
     ForeignLine(<<"H", "E", "T", "A", "T", "M">>, PoolAtom(2), FALSE),
     <<"T", "E", "R", LF>>}

InitPdb ==
    \* no .crd call and no script in this specification
    /\ crdFile = NoFile /\ coordinates = <<>> /\ box_dimensions = None /\ box_angles = None
    /\ crdArgs = NoCrdCall /\ crdPrev = NoFile /\ crdOp = <<>> /\ crdErr = NoError
    /\ crdRet = NoValue
    /\ pc = "idle" /\ script = "none" /\ inputs = <<>> /\ tmpdir = NoDir /\ made = FALSE
    /\ env = <<>> /\ log = <<>> /\ error = NotRaised
    /\ pdbArgs = NoPdbCall
    /\ pdbOp = <<>> /\ pdbErr = NoError /\ pdbRet = NoValue
    /\ \/ /\ atoms \in SeqsUpTo(AtomPool, MaxRecords)
          /\ pdbFile = NoFile
       \/ /\ atoms = <<>>
          /\ \E ls \in SeqsUpTo(ForeignLines, MaxRecords) : pdbFile = Concat(ls)

CallWriteAtomsToPDB ==
    /\ pdbOp = <<>> /\ pdbFile = NoFile
    /\ \E renumber \in BOOLEAN :
          \E r \in {writeAtomsToPDB(pdbFile, atoms, renumber)} :
              /\ pdbFile' = r.file
              /\ atoms' = r.atoms
              /\ pdbErr' = r.err
              /\ pdbArgs' = [atoms |-> atoms, renumber |-> renumber]
    /\ pdbOp' = Append(pdbOp, "write")
    /\ UNCHANGED pdbRet

CallReadAtomsFromPDB ==
    /\ LastCall(pdbOp) \in {"none", "write"} /\ pdbFile # NoFile
    /\ \E r \in {readAtomsFromPDB(pdbFile)} : pdbErr' = r.err /\ pdbRet' = r.ret
    /\ pdbOp' = Append(pdbOp, "read")
    /\ UNCHANGED <<pdbFile, atoms, pdbArgs>>

CallGetPresentSequence ==
    /\ LastCall(pdbOp) \in {"none", "write"} /\ pdbFile # NoFile
    /\ \E chain \in {<<"A">>, <<"B">>, <<SP>>} :
          \E r \in {getPresentSequence(pdbFile, chain)} :
              pdbErr' = r.err /\ pdbRet' = [chain |-> chain, sequence |-> r.ret]
    /\ pdbOp' = Append(pdbOp, "sequence")
    /\ UNCHANGED <<pdbFile, atoms, pdbArgs>>

NextPdb ==
    \/ CallWriteAtomsToPDB /\ UNCHANGED <<crdVars, runVars>>
    \/ CallReadAtomsFromPDB /\ UNCHANGED <<crdVars, runVars>>
    \/ CallGetPresentSequence /\ UNCHANGED <<crdVars, runVars>>

SpecPdb == InitPdb /\ [][NextPdb]_vars

\* -------------------------------------------------------------------------
\* Claims about the PDB codec
\* -------------------------------------------------------------------------

\* C6: writeAtomsToPDB with renumber=True leaves record i with serial i, the
\* first record with residue number 1, and every later record with its
\* predecessor's new residue number, plus 1 exactly when its original residue
\* number differs from its predecessor's original one.
C6_RenumberByRuns ==
    (LastCall(pdbOp) # "none" /\ pdbOp[1] = "write" /\ pdbArgs.renumber)
    => LET orig == pdbArgs.atoms
       IN  /\ Len(atoms) = Len(orig)
           /\ \A i \in 1..Len(atoms) :
                 /\ atoms[i].serial = i
                 /\ i = 1 => atoms[i].resSeq = 1
                 /\ i > 1 => atoms[i].resSeq =
                        atoms[i - 1].resSeq
                        + (IF orig[i].resSeq # orig[i - 1].resSeq THEN 1 ELSE 0)

\* a renumbering of three records in two runs, none keeping its old numbers
C6_Witness ==
    /\ pdbOp = <<"write">> /\ pdbArgs.renumber /\ pdbErr = NoError
    /\ Len(pdbArgs.atoms) = 3 /\ Len(atoms) = 3
    /\ [i \in 1..3 |-> pdbArgs.atoms[i].resSeq] = <<2, 2, 1>>
    /\ [i \in 1..3 |-> atoms[i].resSeq] = <<1, 1, 2>>
    /\ [i \in 1..3 |-> atoms[i].serial] = <<1, 2, 3>>

\* the residue-sequence number in columns 23-26 of a line
LineResSeq(line) == ParseInt(Slice(line, 22, 26)).val

\* one residue name per maximal run of equal residue-sequence numbers among
\* the ATOM lines of a chain, taken from the first line of the run
RunTokens(file, chain) ==
    LET lines == ReadLines(file)
        own == Ascending({i \in 1..Len(lines) :
                            IsAtomLine(lines[i]) /\ Slice(lines[i], 21, 22) = chain},
                         1, Len(lines))
        heads == Ascending({k \in 1..Len(own) :
                              k = 1 \/ LineResSeq(lines[own[k]]) # LineResSeq(lines[own[k - 1]])},
                           1, Len(own))
    IN  [j \in 1..Len(heads) |-> Slice(lines[own[heads[j]]], 17, 20)]

\* C7: getPresentSequence(path, chain) returns, in file order, one residue
\* name per maximal run of equal residue-sequence numbers within the ATOM
\* lines of the requested chain; other chains and other lines give no token.
C7_PresentSequenceRuns ==
    LastCall(pdbOp) = "sequence"
    => pdbErr = NoError /\ pdbRet.sequence = RunTokens(pdbFile, pdbRet.chain)

\* chain A asked of a file where a chain-B line lies inside a run of chain A
C7_Witness ==
    /\ LastCall(pdbOp) = "sequence" /\ pdbRet.chain = <<"A">> /\ pdbErr = NoError
    /\ Len(ReadLines(pdbFile)) = 3
    /\ [i \in 1..3 |-> Slice(ReadLines(pdbFile)[i], 21, 22)] = <<<<"A">>, <<"B">>, <<"A">>>>
    /\ [i \in 1..3 |-> LineResSeq(ReadLines(pdbFile)[i])] = <<1, 2, 1>>
    /\ pdbRet.sequence = <<<<"A", "L", "A">>>>

\* the fields of an atom that the round trip is about
AtomKey(a) == <<a.serial, a.name, a.altLoc, a.resName, a.chainID, a.resSeq, a.iCode,
                a.x, a.y, a.z, a.occupancy, a.tempFactor>>

\* every field of the atom, as the writer formats it, is no wider than its column
FitsColumns(a) ==
    /\ Len(FmtInt(a.serial, 5)) = 5 /\ Len(FmtInt(a.resSeq, 4)) = 4
    /\ Len(a.name) <= 4 /\ Len(a.resName) <= 3
    /\ Len(a.altLoc) = 1 /\ Len(a.chainID) = 1 /\ Len(a.iCode) = 1
    /\ \A v \in {a.x, a.y, a.z} : Len(FmtFloat(v, 8, 3)) = 8
    /\ \A v \in {a.occupancy, a.tempFactor} : Len(FmtFloat(v, 6, 2)) = 6

\* the atom's texts fill their columns and its numbers have no more decimals
\* than their columns hold
FillsColumns(a) ==
    /\ FitsColumns(a)
    /\ Len(a.name) = 4 /\ Len(a.resName) = 3
    /\ \A v \in {a.x, a.y, a.z} : v % (FScale \div 1000) = 0
    /\ \A v \in {a.occupancy, a.tempFactor} : v % (FScale \div 100) = 0

PdbReadBack == pdbOp = <<"write", "read">> /\ ~pdbArgs.renumber

PdbSameAtoms ==
    /\ pdbErr = NoError
    /\ Len(pdbRet) = Len(pdbArgs.atoms)
    /\ \A i \in 1..Len(pdbRet) : AtomKey(pdbRet[i]) = AtomKey(pdbArgs.atoms[i])

\* C8 as stated: for records whose field values fit their column widths,
\* writeAtomsToPDB (renumber=False) then readAtomsFromPDB returns records with
\* the same serial, name, altLoc, resName, chainID, resSeq, iCode, x, y, z,
\* occupancy and tempFactor, in the same order.
C8_RoundTripFitting ==
    (PdbReadBack /\ \A i \in 1..Len(pdbArgs.atoms) : FitsColumns(pdbArgs.atoms[i]))
    => PdbSameAtoms

\* C8 amended: the same round trip for records whose name and residue name
\* fill their 4 and 3 columns and whose coordinates have at most 3 decimals
\* and occupancy and temperature factor at most 2.
C8_RoundTripFilling ==
    (PdbReadBack /\ \A i \in 1..Len(pdbArgs.atoms) : FillsColumns(pdbArgs.atoms[i]))
    => PdbSameAtoms

\* a round trip of three different records, one with a negative coordinate
\* that fills its column
C8_Witness ==
    /\ PdbReadBack /\ pdbErr = NoError
    /\ Len(pdbArgs.atoms) = 3
    /\ \A i \in 1..3 : FillsColumns(pdbArgs.atoms[i])
    /\ [i \in 1..3 |-> pdbArgs.atoms[i].serial] = <<17, 1, 2>>
    /\ pdbRet[1].x = -(100 * FScale)
    /\ pdbRet[3].tempFactor = 12 * FScale + 3400000

\* -------------------------------------------------------------------------
\* The resolvate script body (resolvate.py, MAIN)
\* -------------------------------------------------------------------------

\* the loop over the packer's atoms from the i-th on: chain A is solvent,
\* chain B is solute
RECURSIVE PartitionFrom(_, _, _, _)
PartitionFrom(as, i, solvent_coordinates, solute_coordinates) ==
    IF i > Len(as)
    THEN [solvent_coordinates |-> solvent_coordinates,
          solute_coordinates |-> solute_coordinates]
    ELSE LET xyz == <<as[i].x, as[i].y, as[i].z>>
         IN  PartitionFrom(as, i + 1,
                IF as[i].chainID = <<"A">> THEN solvent_coordinates \o xyz
                ELSE solvent_coordinates,
                IF as[i].chainID = <<"B">> THEN solute_coordinates \o xyz
                ELSE solute_coordinates)

\* the list with the solvent block first
SolventFirst(as) ==
    The({p.solvent_coordinates \o p.solute_coordinates :
            p \in {PartitionFrom(as, 1, <<>>, <<>>)}})

\* coordinates = solute_coordinates + solvent_coordinates
JoinedCoordinates(as) ==
    The({p.solute_coordinates \o p.solvent_coordinates :
            p \in {PartitionFrom(as, 1, <<>>, <<>>)}})

\* an atom of the pool with another chain identifier
OnChain(k, c) == [PoolAtom(k) EXCEPT !.chainID = c]

\* reference PDB: a solute residue 1 and two waters, residues 2 and 3, all on
\* the blank chain; the dry one has no water
RefPdb ==
    Concat(<<ForeignLine(AtomTag, OnChain(1, <<SP>>), FALSE),
             <<"T", "E", "R", LF>>,
             ForeignLine(AtomTag, [OnChain(17, <<SP>>) EXCEPT !.resSeq = 2], TRUE),
             ForeignLine(AtomTag, [OnChain(17, <<SP>>) EXCEPT !.resSeq = 3], TRUE)>>)
RefPdbDry == ForeignLine(AtomTag, OnChain(1, <<SP>>), FALSE)
SrcPdb == ForeignLine(AtomTag, OnChain(1, <<SP>>), FALSE)

\* the lines the packer may write to output.pdb
PackerLines ==
    {AtomLine(PoolAtom(1)), AtomLine(PoolAtom(2)), AtomLine(PoolAtom(17)),
     AtomLine(PoolAtom(5)), AtomLine(OnChain(4, <<"C">>))}

\* what the packer does: its exit status and the output.pdb it leaves
PackerRuns ==
    {[exit |-> 0, output |-> Concat(ls)] : ls \in SeqsUpTo(PackerLines, MaxRecords)}
    \cup {[exit |-> 1, output |-> NoFile],
          [exit |-> 1, output |-> AtomLine(PoolAtom(17))]}

ResolvateInputs ==
    {[options |-> o, reference_pdb |-> r, source_pdb |-> s, reference_crd |-> c,
      packmol |-> [exit |-> 0, output |-> AtomLine(PoolAtom(17)) \o AtomLine(PoolAtom(1))]] :
        o \in BOOLEAN, r \in {NoFile, RefPdb, RefPdbDry}, s \in {NoFile, SrcPdb},
        c \in {NoFile, CrdText(1, 3), CrdText(1, 6), CrdText(1, 9)}}
    \cup {[options |-> TRUE, reference_pdb |-> RefPdb, source_pdb |-> SrcPdb,
           reference_crd |-> CrdText(1, 9), packmol |-> p] : p \in PackerRuns}

NoEnv == [reference_sequence |-> <<>>, source_sequence |-> <<>>, nwat |-> 0,
          wat_pdb |-> NoFile, atoms |-> <<>>, e_out |-> NoValue]

\* a step of resolvate that raises: the script ends where it is
Fail(step, type) ==
    /\ pc' = "failed"
    /\ error' = Raised(type, "none")
    /\ log' = Append(log, step)

\* lines 312-318: parse the command line; a missing option ends the script
ParseOptions ==
    /\ script = "resolvate" /\ pc = "options"
    /\ IF inputs.options
       THEN pc' = "mkdtemp" /\ log' = Append(log, "options") /\ UNCHANGED error
       ELSE Fail("options", "SystemExit")
    /\ UNCHANGED <<crdVars, pdbVars, script, inputs, tmpdir, made, env>>

\* lines 325-329: tmpdir = tempfile.mkdtemp()
MakeTmpdir ==
    /\ script = "resolvate" /\ pc = "mkdtemp"
    /\ tmpdir' = Dir({}) /\ made' = TRUE
    /\ pc' = "sequences" /\ log' = Append(log, "mkdtemp")
    /\ UNCHANGED <<crdVars, pdbVars, script, inputs, env, error>>

\* lines 331-339: the two present sequences (default chain ' ') and nwat
ExtractSequences ==
    /\ script = "resolvate" /\ pc = "sequences"
    /\ \E r \in {getPresentSequence(inputs.reference_pdb, <<SP>>)},
          q \in {getPresentSequence(inputs.source_pdb, <<SP>>)} :
           IF r.err # NoError THEN Fail("sequences", r.err) /\ UNCHANGED env
           ELSE IF q.err # NoError THEN Fail("sequences", q.err) /\ UNCHANGED env
           ELSE /\ env' = [env EXCEPT !.reference_sequence = r.ret,
                                      !.source_sequence = q.ret,
                                      !.nwat = Len(r.ret) - Len(q.ret)]
                /\ pc' = "read_crd" /\ log' = Append(log, "sequences")
                /\ UNCHANGED error
    /\ UNCHANGED <<crdVars, pdbVars, script, inputs, tmpdir, made>>

\* lines 341-349: readAmberCrd(reference_crd), the box tuple and the date
ReadReferenceCrd ==
    /\ script = "resolvate" /\ pc = "read_crd"
    /\ \E r \in {readAmberCrd(inputs.reference_crd)} :
           IF r.err # NoError
           THEN /\ Fail("read_crd", r.err)
                /\ UNCHANGED <<coordinates, box_dimensions, box_angles>>
           ELSE /\ coordinates' = r.ret.coordinates
                /\ box_dimensions' = r.ret.box_dimensions
                /\ box_angles' = r.ret.box_angles
                /\ pc' = "write_wat" /\ log' = Append(log, "read_crd")
                /\ UNCHANGED error
    /\ UNCHANGED <<crdFile, crdArgs, crdPrev, crdOp, crdErr, crdRet, pdbVars,
                   script, inputs, tmpdir, made, env>>

\* the atoms of the first residue after the solute
WaterAtoms(as, first_water_residue) ==
    The({[k \in 1..Len(idx) |-> as[idx[k]]] :
            idx \in {Sorted({i \in 1..Len(as) : as[i].resSeq = first_water_residue},
                            Len(as))}})

\* lines 351-362: write wat.pdb, renumbered, into the temporary directory
WriteWaterPdb ==
    /\ script = "resolvate" /\ pc = "write_wat"
    /\ \E r \in {readAtomsFromPDB(inputs.reference_pdb)} :
           IF r.err # NoError THEN Fail("write_wat", r.err) /\ UNCHANGED <<env, tmpdir>>
           ELSE \E water \in {WaterAtoms(r.ret, Len(env.source_sequence) + 1)} :
                \E w \in {writeAtomsToPDB(NoFile, water, TRUE)} :
                   IF w.err # NoError
                   THEN Fail("write_wat", w.err) /\ UNCHANGED <<env, tmpdir>>
                   ELSE /\ env' = [env EXCEPT !.atoms = r.ret, !.wat_pdb = w.file]
                        /\ tmpdir' = Dir(tmpdir.files \cup {"wat.pdb"})
                        /\ pc' = "stage" /\ log' = Append(log, "write_wat")
                        /\ UNCHANGED error
    /\ UNCHANGED <<crdVars, pdbVars, script, inputs, made>>

\* lines 364-414: copy the source PDB and write packmol.in
StageInputs ==
    /\ script = "resolvate" /\ pc = "stage"
    /\ tmpdir' = Dir(tmpdir.files \cup {"source.pdb", "packmol.in"})
    /\ pc' = "packmol" /\ log' = Append(log, "stage")
    /\ UNCHANGED <<crdVars, pdbVars, script, inputs, made, env, error>>

\* lines 416-420: output = commands.getoutput(command); print output.
\* getoutput returns the text the command printed and not its exit status.
RunPackmol ==
    /\ script = "resolvate" /\ pc = "packmol"
    /\ tmpdir' = IF inputs.packmol.output = NoFile THEN tmpdir
                 ELSE Dir(tmpdir.files \cup {"output.pdb"})
    /\ pc' = "read_output" /\ log' = Append(log, "packmol")
    /\ UNCHANGED <<crdVars, pdbVars, script, inputs, made, env, error>>

\* lines 422-423: atoms = readAtomsFromPDB(tmpdir/output.pdb)
ReadPackmolOutput ==
    /\ script = "resolvate" /\ pc = "read_output"
    /\ \E r \in {readAtomsFromPDB(inputs.packmol.output)} :
           IF r.err # NoError THEN Fail("read_output", r.err) /\ UNCHANGED env
           ELSE /\ env' = [env EXCEPT !.atoms = r.ret]
                /\ pc' = "cleanup" /\ log' = Append(log, "read_output")
                /\ UNCHANGED error
    /\ UNCHANGED <<crdVars, pdbVars, script, inputs, tmpdir, made>>

\* lines 425-428: remove every file of the temporary directory, then rmdir
CleanUp ==
    /\ script = "resolvate" /\ pc = "cleanup"
    /\ tmpdir' = NoDir
    /\ pc' = "write_crd" /\ log' = Append(log, "cleanup")
    /\ UNCHANGED <<crdVars, pdbVars, script, inputs, made, env, error>>

\* lines 430-444: partition by chain, join, writeAmberCrd(output_crd, ...)
WriteOutputCrd ==
    /\ script = "resolvate" /\ pc = "write_crd"
    /\ \E handed \in {JoinedCoordinates(env.atoms)} :
       \E w \in {writeAmberCrd(crdFile, handed, CrdTitle, box_dimensions, box_angles)} :
           /\ crdArgs' = [coordinates |-> handed, box_dimensions |-> box_dimensions,
                          box_angles |-> box_angles]
           /\ crdPrev' = crdFile
           /\ crdFile' = w.file
           /\ coordinates' = w.coordinates
           /\ crdErr' = w.err
           /\ crdOp' = Append(crdOp, "write")
           /\ IF w.err # NoError THEN Fail("write_crd", w.err)
              ELSE pc' = "done" /\ log' = Append(log, "write_crd") /\ UNCHANGED error
    /\ UNCHANGED <<box_dimensions, box_angles, crdRet, pdbVars, script, inputs,
                   tmpdir, made, env>>

\* -------------------------------------------------------------------------
\* gromacs_energies (testing/gromacs_energies.py)
\* -------------------------------------------------------------------------
GromacsInputs ==
    {[grompp_check |-> g, exits |-> [grompp |-> a, mdrun |-> b, g_energy |-> c],
      ener_xvg |-> x] : g \in BOOLEAN, a \in {0, 1}, b \in {0, 1}, c \in {0, 1},
                        x \in BOOLEAN}

\* a command of gromacs_energies: subprocess.call, then `if exit: raise
\* Exception('<command> failed for ...')`
RunChecked(command, next) ==
    /\ log' = Append(log, command)
    /\ IF inputs.exits[command] # 0
       THEN pc' = "failed" /\ error' = Raised("Exception", command)
       ELSE pc' = next /\ UNCHANGED error

\* lines 33-42: grompp; with grompp_check the function returns after it
RunGrompp ==
    /\ script = "gromacs_energies" /\ pc = "grompp"
    /\ RunChecked("grompp", IF inputs.grompp_check THEN "done" ELSE "mdrun")
    /\ UNCHANGED <<crdVars, pdbVars, script, inputs, tmpdir, made, env>>

\* lines 44-52: mdrun
RunMdrun ==
    /\ script = "gromacs_energies" /\ pc = "mdrun"
    /\ RunChecked("mdrun", "g_energy")
    /\ UNCHANGED <<crdVars, pdbVars, script, inputs, tmpdir, made, env>>

\* lines 54-63: g_energy
RunGEnergy ==
    /\ script = "gromacs_energies" /\ pc = "g_energy"
    /\ RunChecked("g_energy", "parse")
    /\ UNCHANGED <<crdVars, pdbVars, script, inputs, tmpdir, made, env>>

\* lines 65-113: read energy.xvg and build the table of energies; the table
\* itself is not modelled, only that it was built
ParseEnergies ==
    /\ script = "gromacs_energies" /\ pc = "parse"
    /\ log' = Append(log, "parse")
    /\ IF inputs.ener_xvg
       THEN pc' = "done" /\ env' = [env EXCEPT !.e_out = "energies"] /\ UNCHANGED error
       ELSE pc' = "failed" /\ error' = Raised("IOError", "none") /\ UNCHANGED env
    /\ UNCHANGED <<crdVars, pdbVars, script, inputs, tmpdir, made>>

\* -------------------------------------------------------------------------
\* Spec: one run of one of the two scripts
\* -------------------------------------------------------------------------
Init ==
    /\ crdFile = NoFile /\ coordinates = <<>> /\ box_dimensions = None /\ box_angles = None
    /\ crdArgs = NoCrdCall /\ crdPrev = NoFile /\ crdOp = <<>> /\ crdErr = NoError
    /\ crdRet = NoValue
    /\ pdbFile = NoFile /\ atoms = <<>> /\ pdbArgs = NoPdbCall /\ pdbOp = <<>>
    /\ pdbErr = NoError /\ pdbRet = NoValue
    /\ tmpdir = NoDir /\ made = FALSE /\ env = NoEnv /\ log = <<>> /\ error = NotRaised
    /\ \/ script = "resolvate" /\ pc = "options" /\ inputs \in ResolvateInputs
       \/ script = "gromacs_energies" /\ pc = "grompp" /\ inputs \in GromacsInputs

Next ==
    \/ ParseOptions \/ MakeTmpdir \/ ExtractSequences \/ ReadReferenceCrd
    \/ WriteWaterPdb \/ StageInputs \/ RunPackmol \/ ReadPackmolOutput
    \/ CleanUp \/ WriteOutputCrd
    \/ RunGrompp \/ RunMdrun \/ RunGEnergy \/ ParseEnergies

Spec == Init /\ [][Next]_vars

\* -------------------------------------------------------------------------
\* Claims about the scripts
\* -------------------------------------------------------------------------
Ended == pc \in {"done", "failed"}

\* C1: once resolvate has created its temporary directory, every way the run
\* ends, normally or by an error in a later step, leaves the directory and
\* its files removed.
C1_TmpdirRemovedAtEnd == (made /\ Ended) => tmpdir = NoDir

ExternalCommands == {"packmol", "grompp", "mdrun", "g_energy"}
ExitStatus(command) ==
    IF command = "packmol" THEN inputs.packmol.exit ELSE inputs.exits[command]

\* C2: when an external command (packmol, grompp, mdrun, g_energy) exits
\* with a non-zero status the script ends with an error that names the
\* command, no later step runs and the command is not run again.
C2_FailedCommandAborts ==
    \A i \in 1..Len(log) :
        (log[i] \in ExternalCommands /\ ExitStatus(log[i]) # 0)
        => /\ i = Len(log)
           /\ pc = "failed" /\ error.command = log[i]
           /\ \A j \in 1..Len(log) : log[j] = log[i] => j = i

\* the x, y, z of the atoms of one chain, in the order of the list
ChainBlock(as, chain) ==
    LET idx == Ascending({i \in 1..Len(as) : as[i].chainID = chain}, 1, Len(as))
    IN  [k \in 1..(3 * Len(idx)) |->
            LET a == as[idx[((k - 1) \div 3) + 1]]
            IN  IF k % 3 = 1 THEN a.x ELSE IF k % 3 = 2 THEN a.y ELSE a.z]

PackerAtoms == readAtomsFromPDB(inputs.packmol.output).ret

\* C10: the coordinates resolvate hands to writeAmberCrd are the x, y, z of
\* the chain-B atoms of the packer output in file order, then those of the
\* chain-A atoms in file order; other chains give nothing, and the length is
\* 3 times the number of chain-A and chain-B atoms.
C10_SoluteThenSolvent ==
    (script = "resolvate" /\ LastCall(crdOp) = "write")
    => /\ crdArgs.coordinates =
             ChainBlock(PackerAtoms, <<"B">>) \o ChainBlock(PackerAtoms, <<"A">>)
       /\ Len(crdArgs.coordinates) =
             3 * Cardinality({i \in 1..Len(PackerAtoms) :
                                PackerAtoms[i].chainID \in {<<"A">>, <<"B">>}})

\* a packer output with a solvent atom first, an atom of chain C, then a solute atom
C10_Witness ==
    /\ script = "resolvate" /\ pc = "done" /\ LastCall(crdOp) = "write"
    /\ Len(PackerAtoms) = 3
    /\ [i \in 1..3 |-> PackerAtoms[i].chainID] = <<<<"A">>, <<"C">>, <<"B">>>>
    /\ crdArgs.coordinates =
          <<PackerAtoms[3].x, PackerAtoms[3].y, PackerAtoms[3].z,
            PackerAtoms[1].x, PackerAtoms[1].y, PackerAtoms[1].z>>

====
